---- MODULE Spec2Model ----
(***************************************************************************)
(* Path-safety classifier of the AI Disk Cleaner Tauri backend.            *)
(*                                                                         *)
(* Two implementations are modelled side by side:                          *)
(*   utils/security.rs     SecurityValidator::validate_path_buf            *)
(*   commands/security.rs  validate_path_safety (Tauri command)            *)
(*                                                                         *)
(* A path is a sequence of characters.  An ASCII character is a one-letter *)
(* string; the three non-ASCII items of the alphabet are named tokens:     *)
(*   "U+00E9"  a two-byte UTF-8 character                                  *)
(*   "0xFF"    a byte that is not valid UTF-8 (only in an OsStr / Path)    *)
(*   "U+FFFD"  the replacement character produced by to_string_lossy       *)
(* The filesystem, the home directory and the target OS are the            *)
(* environment of a call; no operation of the classifier changes them.     *)
(*                                                                         *)
(* commands/file_system.rs validate_directory_access is modelled next to   *)
(* them, with the files of the inspected directory as its state.           *)
(***************************************************************************)
EXTENDS Integers, Sequences, FiniteSets, TLC

VARIABLES path, os, home, fs, statFails, prev, last, entries, info

vars == <<path, os, home, fs, statFails, prev, last, entries, info>>

\* the files of the inspected directory and the answer of the last
\* validate_directory_access
dirState == <<entries, info>>

env == <<path, os, home, fs, statFails>>

----------------------------------------------------------------------------
(* Bounds of the input space *)

\* length of the run of separators used to build over-long paths
LongLen == 1000

\* number of "/d" components in the deep fragment
DeepSegs == 8

----------------------------------------------------------------------------
(* Characters and strings *)

InvalidByte == "0xFF"

ReplacementChar == "U+FFFD"

NonAsciiChars == {"U+00E9", ReplacementChar}

\* char::is_ascii
is_ascii(c) == c \notin NonAsciiChars /\ c # InvalidByte

\* number of bytes of a character in UTF-8 (str::len counts bytes)
Utf8Len(c) == IF c = "U+00E9" THEN 2 ELSE IF c = ReplacementChar THEN 3 ELSE 1

\* a String (as opposed to an OsString) holds valid UTF-8 only
IsUtf8(s) == {i \in 1..Len(s) : s[i] = InvalidByte} = {}

\* Path::to_string_lossy: invalid bytes become U+FFFD
to_string_lossy(p) == [i \in 1..Len(p) |-> IF p[i] = InvalidByte THEN ReplacementChar ELSE p[i]]

\* str::len, in bytes
str_len(s) == Cardinality({i \in 1..Len(s) : Utf8Len(s[i]) = 1})
              + 2 * Cardinality({i \in 1..Len(s) : Utf8Len(s[i]) = 2})
              + 3 * Cardinality({i \in 1..Len(s) : Utf8Len(s[i]) = 3})

\* str::starts_with
starts_with(s, pat) == Len(pat) <= Len(s) /\ \A j \in 1..Len(pat) : s[j] = pat[j]

\* str::contains
contains(s, pat) == \E i \in 1..(Len(s) - Len(pat) + 1) : \A j \in 1..Len(pat) : s[i + j - 1] = pat[j]

\* n copies of the string s
Repeat(s, n) == [i \in 1..(n * Len(s)) |-> s[((i - 1) % Len(s)) + 1]]

----------------------------------------------------------------------------
(* std::path: components and equality *)

\* is_sep_byte: '/' everywhere, also '\' on Windows
Seps(o) == IF o = "windows" THEN {"/", "\\"} ELSE {"/"}

\* MAIN_SEPARATOR
MainSep(o) == IF o = "windows" THEN "\\" ELSE "/"

DriveLetters == {"C", "c"}

UpperCase(c) == IF c = "c" THEN "C" ELSE c

\* parse_prefix, restricted to disk prefixes "X:" (Windows only)
PrefixLen(p, o) == IF o = "windows" /\ Len(p) >= 2 /\ p[1] \in DriveLetters /\ p[2] = ":" THEN 2 ELSE 0

\* has_physical_root
HasRoot(p, o) == Len(p) > PrefixLen(p, o) /\ p[PrefixLen(p, o) + 1] \in Seps(o)

\* first positions of the maximal separator-free runs after the prefix
SegStarts(p, o) == {i \in (PrefixLen(p, o) + 1)..Len(p) :
                      /\ p[i] \notin Seps(o)
                      /\ (i = PrefixLen(p, o) + 1 \/ p[i - 1] \in Seps(o))}

SegEnd(p, o, i) == CHOOSE j \in i..Len(p) :
                      /\ \A k \in i..j : p[k] \notin Seps(o)
                      /\ (j = Len(p) \/ p[j + 1] \in Seps(o))

Segment(p, o, i) == SubSeq(p, i, SegEnd(p, o, i))

\* a "." segment is dropped unless it leads a path without root (include_cur_dir)
KeptStarts(p, o) == {i \in SegStarts(p, o) :
                       \/ Segment(p, o, i) # <<".">>
                       \/ (i = PrefixLen(p, o) + 1 /\ ~HasRoot(p, o))}

SortedSeq(S) == [r \in 1..Cardinality(S) |-> CHOOSE x \in S : Cardinality({y \in S : y < x}) = r - 1]

Component(seg) == IF seg = <<".">> THEN [kind |-> "CurDir", name |-> <<>>]
                  ELSE IF seg = <<".", ".">> THEN [kind |-> "ParentDir", name |-> <<>>]
                  ELSE [kind |-> "Normal", name |-> seg]

\* Path::components, collected
components(p, o) ==
    LET pre == IF PrefixLen(p, o) = 2
               THEN << [kind |-> "Prefix", name |-> <<UpperCase(p[1])>>] >> ELSE <<>>
        root == IF HasRoot(p, o) THEN << [kind |-> "RootDir", name |-> <<>>] >> ELSE <<>>
        st == SortedSeq(KeptStarts(p, o))
    IN  pre \o root \o [r \in 1..Len(st) |-> Component(Segment(p, o, st[r]))]

\* impl PartialEq for Path: component-wise comparison
path_eq(p, q, o) == components(p, o) = components(q, o)

\* Path::join with a relative right operand
join(base, rel, o) == IF Len(base) = 0 \/ base[Len(base)] \in Seps(o)
                      THEN base \o rel
                      ELSE base \o <<MainSep(o)>> \o rel

----------------------------------------------------------------------------
(* Filesystem probes *)

\* std::fs::metadata at probe n (1: Path::exists, 2: Path::is_dir)
metadata(n, f, fails) == IF n \in fails THEN "Err"
                         ELSE IF f = "missing" THEN "Err"
                         ELSE f

\* variant of exists: path.try_exists().is_ok(), true whenever the probe did not fail
exists_try_exists_is_ok(f, fails) == 1 \notin fails

\* Path::exists: metadata(self).is_ok()
exists(f, fails) == metadata(1, f, fails) # "Err"

\* variant of is_dir: metadata(self).is_ok(), true for a file as well
is_dir_metadata_is_ok(f, fails) == metadata(2, f, fails) # "Err"

\* Path::is_dir: metadata(self).map(|m| m.is_dir()).unwrap_or(false)
is_dir(f, fails) == metadata(2, f, fails) = "dir"

----------------------------------------------------------------------------
(* utils/security.rs: SecurityValidator *)

\* the Windows deny-list of SecurityValidator::is_system_directory
system_dirs_windows == {
    <<"C", ":", "\\", "W", "i", "n", "d", "o", "w", "s">>,
    <<"C", ":", "\\", "P", "r", "o", "g", "r", "a", "m", " ", "F", "i", "l", "e", "s">>,
    <<"C", ":", "\\", "P", "r", "o", "g", "r", "a", "m", " ", "F", "i", "l", "e", "s", " ", "(", "x", "8", "6", ")">>,
    <<"C", ":", "\\", "P", "r", "o", "g", "r", "a", "m", "D", "a", "t", "a">>,
    <<"C", ":", "\\", "S", "y", "s", "t", "e", "m", "3", "2">>,
    <<"C", ":", "\\", "S", "y", "s", "W", "O", "W", "6", "4">> }

\* the Unix deny-list of SecurityValidator::is_system_directory
system_dirs == {
    <<"/", "b", "i", "n">>,
    <<"/", "s", "b", "i", "n">>,
    <<"/", "u", "s", "r", "/", "b", "i", "n">>,
    <<"/", "u", "s", "r", "/", "s", "b", "i", "n">>,
    <<"/", "e", "t", "c">>,
    <<"/", "b", "o", "o", "t">>,
    <<"/", "s", "y", "s">>,
    <<"/", "p", "r", "o", "c">>,
    <<"/", "d", "e", "v">>,
    <<"/", "l", "i", "b">>,
    <<"/", "l", "i", "b", "6", "4">>,
    <<"/", "u", "s", "r", "/", "l", "i", "b">>,
    <<"/", "u", "s", "r", "/", "l", "i", "b", "6", "4">>,
    <<"/", "v", "a", "r", "/", "l", "o", "g">> }

\* the sub-directories of home that is_user_sensitive_directory knows
sensitive_subdirs == {
    <<"D", "o", "c", "u", "m", "e", "n", "t", "s">>,
    <<"D", "e", "s", "k", "t", "o", "p">>,
    <<"P", "i", "c", "t", "u", "r", "e", "s">>,
    <<"V", "i", "d", "e", "o", "s">>,
    <<"M", "u", "s", "i", "c">>,
    <<"D", "o", "w", "n", "l", "o", "a", "d", "s">>,
    <<".", "s", "s", "h">>,
    <<".", "g", "n", "u", "p", "g">>,
    <<".", "c", "o", "n", "f", "i", "g">>,
    <<".", "l", "o", "c", "a", "l">> }

\* the verdict record (PathValidation / SafetyValidation)
Verdict(safe, risk, warns, blocked) ==
    [is_safe |-> safe, risk_level |-> risk, warnings |-> warns, blocked_reasons |-> blocked]

\* the locals of a classifier body: the two vectors, whether a return statement
\* was executed, and the verdict it returned
Locals0 == [warnings |-> <<>>, blocked_reasons |-> <<>>, returned |-> FALSE,
            val |-> Verdict(FALSE, "Critical", <<>>, <<>>)]

\* variant of block: the reason is pushed and the return statement is missing
block_no_return(s, cond, msg, risk) ==
    IF s.returned \/ ~cond THEN s
    ELSE [s EXCEPT !.blocked_reasons = Append(@, msg)]

\* if cond { blocked_reasons.push(msg); return Ok(.. is_safe: false, risk ..) }
block(s, cond, msg, risk) ==
    IF s.returned \/ ~cond THEN s
    ELSE [warnings |-> s.warnings,
          blocked_reasons |-> Append(s.blocked_reasons, msg),
          returned |-> TRUE,
          val |-> Verdict(FALSE, risk, s.warnings, Append(s.blocked_reasons, msg))]

\* variant of warn: the rules are chained with "else if", so a warning is
\* pushed only when none was pushed before
warn_else_if(s, cond, msg) ==
    IF s.returned \/ ~cond \/ s.warnings # <<>> THEN s
    ELSE [s EXCEPT !.warnings = Append(@, msg)]

\* if cond { warnings.push(msg); }
warn(s, cond, msg) ==
    IF s.returned \/ ~cond THEN s
    ELSE [s EXCEPT !.warnings = Append(@, msg)]

\* Ok(verdict), together with the blocked_reasons vector the risk aggregation
\* was given when the body reached it
Ok(s, v) == [tag |-> "Ok", val |-> v,
             aggregation |-> [reached |-> ~s.returned,
                              blocked_reasons |-> IF s.returned THEN <<>> ELSE s.blocked_reasons]]

\* home::home_dir() -> Option<PathBuf>
NoHome == [some |-> FALSE, dir |-> <<>>]

SomeHome(d) == [some |-> TRUE, dir |-> d]

\* variant of SecurityValidator::is_system_directory: a deny-list entry must be
\* followed by a separator or by the end of the path
SecurityValidator_is_system_directory_by_component(p, o) ==
    \E dir \in (IF o = "windows" THEN system_dirs_windows ELSE {}) \cup system_dirs :
        /\ starts_with(to_string_lossy(p), dir)
        /\ (Len(p) = Len(dir) \/ p[Len(dir) + 1] \in Seps(o))

\* SecurityValidator::is_system_directory: literal prefix test on the lossy string;
\* the Windows list is consulted on Windows only, the Unix list always
SecurityValidator_is_system_directory(p, o) ==
    \/ (o = "windows" /\ \E dir \in system_dirs_windows : starts_with(to_string_lossy(p), dir))
    \/ \E dir \in system_dirs : starts_with(to_string_lossy(p), dir)

\* SecurityValidator::is_user_sensitive_directory: path == home.join(subdir)
is_user_sensitive_directory(p, h, o) ==
    h.some /\ \E subdir \in sensitive_subdirs : path_eq(p, join(h.dir, subdir, o), o)

\* SecurityValidator::contains_path_traversal
contains_path_traversal(p) ==
    \/ contains(to_string_lossy(p), <<".", ".">>)
    \/ contains(to_string_lossy(p), <<".", "/">>)
    \/ contains(to_string_lossy(p), <<".", "\\">>)

\* SecurityValidator::has_unsafe_characters
has_unsafe_characters(p) ==
    \E i \in 1..Len(p) :
        LET c == to_string_lossy(p)[i]
        IN  ~is_ascii(c) \/ c \in {"<", ">", ":", "\"", "|", "?", "*"}

\* SecurityValidator::is_path_too_long
is_path_too_long(p, o) ==
    IF o = "windows" THEN str_len(to_string_lossy(p)) > 250
    ELSE str_len(to_string_lossy(p)) > 1000

\* variant of calculate_risk_level: the two slices are taken in the other order
calculate_risk_level_swapped(warnings, blocked_reasons) ==
    IF warnings # <<>> THEN <<FALSE, "High">>
    ELSE IF blocked_reasons = <<>> THEN <<TRUE, "Safe">>
    ELSE IF Len(blocked_reasons) <= 2 THEN <<TRUE, "Low">>
    ELSE <<TRUE, "Medium">>

\* variant of calculate_risk_level: "< 2" in place of "<= 2"
calculate_risk_level_lt(warnings, blocked_reasons) ==
    IF blocked_reasons # <<>> THEN <<FALSE, "High">>
    ELSE IF warnings = <<>> THEN <<TRUE, "Safe">>
    ELSE IF Len(warnings) < 2 THEN <<TRUE, "Low">>
    ELSE <<TRUE, "Medium">>

\* SecurityValidator::calculate_risk_level -> (is_safe, risk_level)
calculate_risk_level(warnings, blocked_reasons) ==
    IF blocked_reasons # <<>> THEN <<FALSE, "High">>
    ELSE IF warnings = <<>> THEN <<TRUE, "Safe">>
    ELSE IF Len(warnings) <= 2 THEN <<TRUE, "Low">>
    ELSE <<TRUE, "Medium">>

\* the closing statements of validate_path_buf: the early return, or the
\* verdict built from calculate_risk_level
validator_verdict(s) ==
    IF s.returned THEN s.val
    ELSE LET r == calculate_risk_level(s.warnings, s.blocked_reasons)
         IN  Verdict(r[1], r[2], s.warnings, s.blocked_reasons)

\* variant of validate_path_buf: the traversal rule is placed before the
\* system-directory rule
validate_path_buf_traversal_first(p, o, h, f, fails) ==
    LET s1 == block(Locals0, ~exists(f, fails), "Path does not exist", "Critical")
        s2 == block(s1, ~is_dir(f, fails), "Path is not a directory", "Critical")
        s3 == block(s2, contains_path_traversal(p),
                    "Path contains traversal patterns", "Critical")
        s4 == block(s3, SecurityValidator_is_system_directory(p, o),
                    "System directory access is blocked", "High")
        s5 == warn(s4, is_user_sensitive_directory(p, h, o),
                   "User sensitive directory - review operations carefully")
        s6 == warn(s5, has_unsafe_characters(p),
                   "Path contains special characters that may cause issues")
        s7 == warn(s6, is_path_too_long(p, o),
                   "Very long path - may cause system limitations")
    IN  Ok(s7, validator_verdict(s7))

\* SecurityValidator::validate_path_buf, statement by statement
validate_path_buf(p, o, h, f, fails) ==
    LET s1 == block(Locals0, ~exists(f, fails), "Path does not exist", "Critical")
        s2 == block(s1, ~is_dir(f, fails), "Path is not a directory", "Critical")
        s3 == block(s2, SecurityValidator_is_system_directory(p, o),
                    "System directory access is blocked", "High")
        s4 == warn(s3, is_user_sensitive_directory(p, h, o),
                   "User sensitive directory - review operations carefully")
        s5 == block(s4, contains_path_traversal(p),
                    "Path contains traversal patterns", "Critical")
        s6 == warn(s5, has_unsafe_characters(p),
                   "Path contains special characters that may cause issues")
        s7 == warn(s6, is_path_too_long(p, o),
                   "Very long path - may cause system limitations")
    IN  Ok(s7, validator_verdict(s7))

\* the rules of validate_path_buf that follow the existence and type checks,
\* in the order of the code
validator_rules == <<"system_directory", "user_sensitive", "path_traversal",
                     "unsafe_characters", "path_length">>

\* what each of these rules finds for a path
rule_findings(p, o, h) ==
    [system_directory |-> SecurityValidator_is_system_directory(p, o),
     user_sensitive |-> is_user_sensitive_directory(p, h, o),
     path_traversal |-> contains_path_traversal(p),
     unsafe_characters |-> has_unsafe_characters(p),
     path_length |-> is_path_too_long(p, o)]

\* the statement of one rule
apply_rule(s, r, found) ==
    CASE r = "system_directory" ->
            block(s, found[r], "System directory access is blocked", "High")
      [] r = "user_sensitive" ->
            warn(s, found[r], "User sensitive directory - review operations carefully")
      [] r = "path_traversal" ->
            block(s, found[r], "Path contains traversal patterns", "Critical")
      [] r = "unsafe_characters" ->
            warn(s, found[r], "Path contains special characters that may cause issues")
      [] r = "path_length" ->
            warn(s, found[r], "Very long path - may cause system limitations")

RECURSIVE run_rules(_, _, _, _)
run_rules(order, i, s, found) ==
    IF i > Len(order) THEN s
    ELSE run_rules(order, i + 1, apply_rule(s, order[i], found), found)

\* the body of validate_path_buf with its rules taken in the given order,
\* for a path on which the rules find what the record found says
classify_in_order(order, found, f, fails) ==
    LET s1 == block(Locals0, ~exists(f, fails), "Path does not exist", "Critical")
        s2 == block(s1, ~is_dir(f, fails), "Path is not a directory", "Critical")
    IN  IF s2.returned THEN s2.val
        ELSE validator_verdict(run_rules(order, 1, s2, found))

----------------------------------------------------------------------------
(* commands/security.rs: the validate_path_safety command *)

\* the Windows deny-list of the command's is_system_directory
system_paths == {
    <<"C", ":", "\\", "W", "i", "n", "d", "o", "w", "s">>,
    <<"C", ":", "\\", "P", "r", "o", "g", "r", "a", "m", " ", "F", "i", "l", "e", "s">>,
    <<"C", ":", "\\", "P", "r", "o", "g", "r", "a", "m", " ", "F", "i", "l", "e", "s", " ", "(", "x", "8", "6", ")">>,
    <<"C", ":", "\\", "P", "r", "o", "g", "r", "a", "m", "D", "a", "t", "a">>,
    <<"C", ":", "\\", "S", "y", "s", "t", "e", "m", "3", "2">>,
    <<"C", ":", "\\", "s", "y", "s", "w", "o", "w", "6", "4">> }

\* the Unix deny-list of the command's is_system_directory
unix_system_paths == {
    <<"/", "b", "i", "n">>,
    <<"/", "s", "b", "i", "n">>,
    <<"/", "u", "s", "r", "/", "b", "i", "n">>,
    <<"/", "u", "s", "r", "/", "s", "b", "i", "n">>,
    <<"/", "e", "t", "c">>,
    <<"/", "b", "o", "o", "t">>,
    <<"/", "s", "y", "s">>,
    <<"/", "p", "r", "o", "c">>,
    <<"/", "d", "e", "v">>,
    <<"/", "l", "i", "b">>,
    <<"/", "l", "i", "b", "6", "4">>,
    <<"/", "u", "s", "r", "/", "l", "i", "b">>,
    <<"/", "u", "s", "r", "/", "l", "i", "b", "6", "4">> }

\* the substrings is_application_directory looks for
app_patterns == {
    <<"n", "o", "d", "e", "_", "m", "o", "d", "u", "l", "e", "s">>,
    <<".", "g", "i", "t">>,
    <<"t", "a", "r", "g", "e", "t">>,
    <<"b", "u", "i", "l", "d">>,
    <<"d", "i", "s", "t">>,
    <<".", "v", "s", "c", "o", "d", "e">>,
    <<".", "i", "d", "e", "a">> }

\* is_system_directory of commands/security.rs
is_system_directory(p, o) ==
    \/ (o = "windows" /\ \E system_path \in system_paths : starts_with(to_string_lossy(p), system_path))
    \/ \E system_path \in unix_system_paths : starts_with(to_string_lossy(p), system_path)

\* is_user_home_directory: path == home_dir
is_user_home_directory(p, h, o) == h.some /\ path_eq(p, h.dir, o)

\* is_application_directory
is_application_directory(p) ==
    \E pattern \in app_patterns : contains(to_string_lossy(p), pattern)

\* has_special_characters, on the String argument
has_special_characters(s) ==
    \E i \in 1..Len(s) : ~is_ascii(s[i]) \/ s[i] \in {"<", ">", ":", "\"", "|", "?", "*"}

\* the closing if/else of validate_path_safety -> (is_safe, risk_level)
overall_safety(warnings, blocked_reasons) ==
    IF blocked_reasons = <<>>
    THEN IF warnings = <<>> THEN <<TRUE, "Safe">>
         ELSE IF Len(warnings) <= 2 THEN <<TRUE, "Low">>
         ELSE <<TRUE, "Medium">>
    ELSE <<FALSE, "High">>

\* the closing statements of validate_path_safety
command_verdict(s) ==
    IF s.returned THEN s.val
    ELSE LET r == overall_safety(s.warnings, s.blocked_reasons)
         IN  Verdict(r[1], r[2], s.warnings, s.blocked_reasons)

\* variant of validate_path_safety: the special-characters rule is placed
\* before the depth rule
validate_path_safety_chars_first(p, o, h, f, fails) ==
    LET s1 == block(Locals0, ~exists(f, fails), "Path does not exist", "Critical")
        s2 == block(s1, ~is_dir(f, fails), "Path is not a directory", "Critical")
        s3 == block(s2, is_system_directory(p, o),
                    "System directory - modification not recommended", "High")
        s4 == warn(s3, is_user_home_directory(p, h, o),
                   "User home directory - review carefully before operations")
        s5 == warn(s4, is_application_directory(p),
                   "Application directory - may affect installed programs")
        s6 == warn(s5, has_special_characters(p),
                   "Path contains special characters - some operations may be limited")
        s7 == warn(s6, Len(components(p, o)) > 10,
                   "Very deep directory path - may cause performance issues")
    IN  Ok(s7, command_verdict(s7))

\* validate_path_safety(path: String), statement by statement
validate_path_safety(p, o, h, f, fails) ==
    LET s1 == block(Locals0, ~exists(f, fails), "Path does not exist", "Critical")
        s2 == block(s1, ~is_dir(f, fails), "Path is not a directory", "Critical")
        s3 == block(s2, is_system_directory(p, o),
                    "System directory - modification not recommended", "High")
        s4 == warn(s3, is_user_home_directory(p, h, o),
                   "User home directory - review carefully before operations")
        s5 == warn(s4, is_application_directory(p),
                   "Application directory - may affect installed programs")
        s6 == warn(s5, Len(components(p, o)) > 10,
                   "Very deep directory path - may cause performance issues")
        s7 == warn(s6, has_special_characters(p),
                   "Path contains special characters - some operations may be limited")
    IN  Ok(s7, command_verdict(s7))

----------------------------------------------------------------------------
(* commands/file_system.rs: validate_directory_access *)

\* names of the files the inspected directory can hold; the first one is the
\* name of the write probe
FileNames == {".write_test", "a.txt"}

NoFile == [exists |-> FALSE, data |-> <<>>]

File(data) == [exists |-> TRUE, data |-> data]

\* what a name of the directory can stand for: nothing, or a file of 0..2 bytes
FileStates == {NoFile, File(<<>>), File(<<"x">>), File(<<"x", "y">>)}

None == [some |-> FALSE, val |-> 0]

Some(n) == [some |-> TRUE, val |-> n]

\* std::fs::write(dir.join(name), data): creates the file or truncates it and
\* writes data; a failed open leaves the directory as it was
fs_write(ents, name, data, ok) ==
    IF ok THEN [ents EXCEPT ![name] = File(data)] ELSE ents

\* std::fs::remove_file(dir.join(name))
remove_file(ents, name, ok) ==
    IF ok /\ ents[name].exists THEN [ents EXCEPT ![name] = NoFile] ELSE ents

RECURSIVE SumLen(_, _)
SumLen(ents, names) ==
    IF names = {} THEN 0
    ELSE LET n == CHOOSE x \in names : TRUE
         IN  Len(ents[n].data) + SumLen(ents, names \ {n})

\* count_directory_contents: one per entry, the length of every file whose
\* metadata can be read; the directories here hold fewer entries than the
\* scan limit of 10000
count_directory_contents(ents, scan_ok, metaFails) ==
    IF ~scan_ok THEN <<None, None>>
    ELSE LET present == {n \in FileNames : ents[n].exists}
         IN  <<Some(Cardinality(present)), Some(SumLen(ents, present \ metaFails))>>

\* Path::file_name().and_then(to_str).unwrap_or(&path)
file_name_or_path(p, o) ==
    LET c == components(p, o)
    IN  IF Len(c) > 0 /\ c[Len(c)].kind = "Normal" THEN c[Len(c)].name ELSE p

DirectoryInfo(p, name, is_readable, is_writable, file_count, total_size) ==
    [tag |-> "Ok", error |-> "", path |-> p, name |-> name,
     is_readable |-> is_readable, is_writable |-> is_writable,
     file_count |-> file_count, total_size |-> total_size]

FileSystemError(msg) ==
    [tag |-> "Err", error |-> msg, path |-> <<>>, name |-> <<>>,
     is_readable |-> FALSE, is_writable |-> FALSE,
     file_count |-> None, total_size |-> None]

\* validate_directory_access(path: String): the answer and the files of the
\* directory after the call.  read_ok, write_ok, remove_ok and scan_ok are the
\* outcomes of read_dir, fs::write, remove_file and of the read_dir of
\* count_directory_contents; metaFails are the entries whose metadata fails.
validate_directory_access(p, o, f, fails, ents, read_ok, write_ok, remove_ok, scan_ok, metaFails) ==
    IF ~exists(f, fails)
    THEN [info |-> FileSystemError("Directory does not exist"), entries |-> ents]
    ELSE IF ~is_dir(f, fails)
    THEN [info |-> FileSystemError("Path is not a directory"), entries |-> ents]
    ELSE LET name == file_name_or_path(p, o)
             is_readable == read_ok
             is_writable == write_ok
             written == fs_write(ents, ".write_test", <<>>, write_ok)
             cleaned == IF is_writable
                        THEN remove_file(written, ".write_test", remove_ok)
                        ELSE written
             counted == IF is_readable
                        THEN count_directory_contents(cleaned, scan_ok, metaFails)
                        ELSE <<None, None>>
         IN  [info |-> DirectoryInfo(p, name, is_readable, is_writable,
                                     counted[1], counted[2]),
              entries |-> cleaned]

----------------------------------------------------------------------------
(* The input space *)

\* how a path starts
Heads == {
    <<>>,
    <<"/", "t", "m", "p">>,
    <<"/", "e", "t", "c">>,
    <<"/", "b", "i", "n">>,
    <<"/", "v", "a", "r", "/", "l", "o", "g">>,
    <<"/", "h", "o", "m", "e", "/", "a", "l", "i", "c", "e">>,
    <<"C", ":", "\\", "W", "i", "n", "d", "o", "w", "s">>,
    <<"C", ":", "\\", "s", "y", "s", "w", "o", "w", "6", "4">>,
    <<"C", ":", "\\", "S", "y", "s", "W", "O", "W", "6", "4">>,
    <<"C", ":", "\\", "U", "s", "e", "r", "s", "\\", "a", "l", "i", "c", "e">>,
    <<".">> }

\* what follows: nothing, a suffix of the name, a run of separators, a chain
\* of nested directories, a "." component
Mids == { <<>>, <<"-", "d", "a", "t", "a">>, Repeat(<<"/">>, LongLen),
          Repeat(<<"/", "d">>, DeepSegs), <<"/", ".">> }

\* how the path ends
Tails == {
    <<>>,
    <<"/">>,
    <<"/", "D", "o", "c", "u", "m", "e", "n", "t", "s">>,
    <<"/", ".", "g", "i", "t">>,
    <<"/", "f", "o", "o", ".", ".", "b", "a", "r">>,
    <<".", "\\", "x">>,
    <<"/", "a", "*">>,
    <<"/", "U+00E9">>,
    <<"/", InvalidByte>> }

Paths == {h \o m \o t : h \in Heads, m \in Mids, t \in Tails}

HomeUnix == <<"/", "h", "o", "m", "e", "/", "a", "l", "i", "c", "e">>

HomeWindows == <<"C", ":", "\\", "U", "s", "e", "r", "s", "\\", "a", "l", "i", "c", "e">>

\* HOME on Unix, USERPROFILE on Windows; either may be unset
Homes(o) == {NoHome, SomeHome(IF o = "windows" THEN HomeWindows ELSE HomeUnix)}

\* a path that can only resolve to a directory: it ends with a separator or
\* with a "." or ".." component
ResolvesToDirOnly(p, o) ==
    Len(p) > 0 /\ (\/ p[Len(p)] \in Seps(o)
                   \/ (p[Len(p)] = "." /\ (Len(p) = 1 \/ p[Len(p) - 1] \in Seps(o)))
                   \/ (Len(p) >= 2 /\ p[Len(p)] = "." /\ p[Len(p) - 1] = "."
                         /\ (Len(p) = 2 \/ p[Len(p) - 2] \in Seps(o))))

\* what the filesystem can hold at a path
FsStates(p, o) == IF p = <<>> THEN {"missing"}
                  ELSE IF ResolvesToDirOnly(p, o) THEN {"missing", "dir"}
                  ELSE {"missing", "file", "dir"}

\* UNC, verbatim and device prefixes of Windows paths are outside the input space
LeadingDoubleSep(p, o) == Len(p) >= 2 /\ p[1] \in Seps(o) /\ p[2] \in Seps(o)

EmptyVerdict == Verdict(FALSE, "Critical", <<>>, <<>>)

\* the directories validate_directory_access is asked about
DirPaths == {
    <<"/">>,
    <<"/", "t", "m", "p">>,
    <<"/", "t", "m", "p", "/", ".", ".">> }

NoEntries == [n \in FileNames |-> NoFile]

NoInfo == [tag |-> "None", error |-> "", path |-> <<>>, name |-> <<>>,
           is_readable |-> FALSE, is_writable |-> FALSE,
           file_count |-> None, total_size |-> None]

NoCall == [entry |-> "none",
           result |-> [tag |-> "None", val |-> EmptyVerdict,
                       aggregation |-> [reached |-> FALSE, blocked_reasons |-> <<>>]]]

----------------------------------------------------------------------------
(* The state machine *)

Init ==
    /\ os \in {"linux", "windows"}
    /\ path \in Paths
    /\ (os = "windows" => ~LeadingDoubleSep(path, os))
    /\ home \in Homes(os)
    /\ fs \in FsStates(path, os)
    /\ statFails \in SUBSET {1, 2}
    /\ prev = NoCall
    /\ last = NoCall
    /\ entries = NoEntries
    /\ info = NoInfo

\* variant of the call: a missing path is created as a directory (create_dir_all)
\* after it was classified
ValidatePathBuf_creates_dir ==
    /\ prev' = last
    /\ last' = [entry |-> "validate_path_buf",
                result |-> validate_path_buf(path, os, home, fs, statFails)]
    /\ fs' = IF fs = "missing" /\ path # <<>> THEN "dir" ELSE fs
    /\ UNCHANGED <<path, os, home, statFails>>
    /\ UNCHANGED dirState

\* a call of SecurityValidator::validate_path_buf(&Path)
ValidatePathBuf ==
    /\ prev' = last
    /\ last' = [entry |-> "validate_path_buf",
                result |-> validate_path_buf(path, os, home, fs, statFails)]
    /\ UNCHANGED env
    /\ UNCHANGED dirState

\* an invocation of the validate_path_safety(String) command
ValidatePathSafety ==
    /\ IsUtf8(path)
    /\ prev' = last
    /\ last' = [entry |-> "validate_path_safety",
                result |-> validate_path_safety(path, os, home, fs, statFails)]
    /\ UNCHANGED env
    /\ UNCHANGED dirState

Next == ValidatePathBuf \/ ValidatePathSafety

Spec == Init /\ [][Next]_vars

\* the state before validate_directory_access is invoked: a directory holds
\* any files, a path that is no directory holds none
InitDir ==
    /\ os \in {"linux", "windows"}
    /\ path \in DirPaths
    /\ home = NoHome
    /\ fs \in FsStates(path, os)
    /\ statFails \in SUBSET {1, 2}
    /\ prev = NoCall
    /\ last = NoCall
    /\ entries \in (IF fs = "dir" THEN [FileNames -> FileStates] ELSE {NoEntries})
    /\ info = NoInfo

\* an invocation of the validate_directory_access(String) command
ValidateDirectoryAccess ==
    /\ IsUtf8(path)
    /\ \E read_ok, write_ok, remove_ok, scan_ok \in BOOLEAN :
         \E metaFails \in SUBSET FileNames :
            LET r == validate_directory_access(path, os, fs, statFails, entries,
                         read_ok, write_ok, remove_ok, scan_ok, metaFails)
            IN  /\ info' = r.info
                /\ entries' = r.entries
    /\ UNCHANGED <<path, os, home, fs, statFails, prev, last>>

NextDir == ValidateDirectoryAccess

SpecDir == InitDir /\ [][NextDir]_vars

----------------------------------------------------------------------------
(* Properties *)

Entries == {"validate_path_buf", "validate_path_safety"}

\* a call has returned
Called == last.entry \in Entries

\* the verdict of the most recent call
V == last.result.val

\* the probes saw the path as an existing directory
ExistingDir == fs = "dir" /\ statFails = {}

\* the deny-list of the platform: the Windows list on Windows, the POSIX list elsewhere
PlatformDenyList(o) == IF o = "windows" THEN system_dirs_windows ELSE system_dirs

\* the path string starts with an entry of the platform deny-list
DenyListed == \E dir \in PlatformDenyList(os) : starts_with(to_string_lossy(path), dir)

\* the path string contains "..", "./" or ".\"
HasTraversal ==
    \E pat \in { <<".", ".">>, <<".", "/">>, <<".", "\\">> } : contains(to_string_lossy(path), pat)

MissingVerdict == Verdict(FALSE, "Critical", <<>>, <<"Path does not exist">>)

\* C1: every verdict returned, by either entry point and on every return path,
\* has is_safe true exactly when blocked_reasons is empty.
C1_SafeIffNoBlockedReasons ==
    Called => (V.is_safe <=> V.blocked_reasons = <<>>)

\* a verdict of the validator's aggregation (it carries warnings and no block)
C1_Witness ==
    /\ last.entry = "validate_path_buf"
    /\ prev.entry = "validate_path_safety"
    /\ V.is_safe /\ Len(V.warnings) = 2
    /\ ~prev.result.val.is_safe /\ prev.result.val.risk_level = "High"

\* C2: a verdict with is_safe = TRUE is only given to a path that exists, is a
\* directory, starts with no deny-list entry and contains no traversal pattern,
\* whichever entry point produced it.
C2_NeverApprovesUnsafe ==
    (Called /\ V.is_safe) => (fs = "dir" /\ ~DenyListed /\ ~HasTraversal)

\* C3: a path that does not exist gets is_safe = FALSE, Critical, no warning
\* and the single blocked reason "Path does not exist", whatever else the
\* path string would trigger.
C3_MissingPath ==
    (Called /\ fs = "missing") => V = MissingVerdict

\* a missing path whose string is deny-listed and contains a traversal pattern
C3_Witness ==
    /\ Called /\ fs = "missing" /\ statFails = {}
    /\ DenyListed /\ HasTraversal
    /\ prev.entry \in Entries /\ prev.entry # last.entry

\* C4: a path that exists and is not a directory gets is_safe = FALSE, Critical
\* and blocked_reasons = ["Path is not a directory"], also when the string is
\* deny-listed or contains a traversal pattern.
C4_NotADirectory ==
    (Called /\ fs = "file" /\ 1 \notin statFails)
        => V = Verdict(FALSE, "Critical", <<>>, <<"Path is not a directory">>)

\* a file whose path string is deny-listed and contains a traversal pattern
C4_Witness ==
    /\ Called /\ fs = "file" /\ statFails = {}
    /\ DenyListed /\ HasTraversal
    /\ prev.entry \in Entries /\ prev.entry # last.entry

\* C5: the validator gives an existing directory whose path string starts with
\* a deny-list entry (a literal prefix) is_safe = FALSE, High and
\* blocked_reasons = ["System directory access is blocked"], whatever else the
\* path is.
C5_SystemDirectory ==
    (last.entry = "validate_path_buf" /\ ExistingDir /\ DenyListed)
        => V = Verdict(FALSE, "High", <<>>, <<"System directory access is blocked">>)

\* /bin-data..., deny-listed by the literal prefix /bin only, with a traversal pattern
C5_Witness ==
    /\ last.entry = "validate_path_buf" /\ ExistingDir
    /\ starts_with(path, <<"/", "b", "i", "n", "-">>)
    /\ HasTraversal

\* C6: an existing directory whose path string contains "..", "./" or ".\"
\* gets is_safe = FALSE, Critical and the traversal blocked reason.
C6_TraversalBlocked ==
    (Called /\ ExistingDir /\ HasTraversal)
        => (/\ ~V.is_safe
            /\ V.risk_level = "Critical"
            /\ V.blocked_reasons = <<"Path contains traversal patterns">>)

\* the risk level that goes with n warnings
RiskOfWarnings(n) == IF n = 0 THEN "Safe" ELSE IF n <= 2 THEN "Low" ELSE "Medium"

\* C7: the risk level of a safe verdict is fixed by its number of warnings:
\* none gives Safe, one or two give Low, three or more give Medium; a safe
\* verdict is never High or Critical.
C7_RiskByWarningCount ==
    (Called /\ V.is_safe) => V.risk_level = RiskOfWarnings(Len(V.warnings))

\* the validator returns Medium for three warnings, after the command returned
\* Low for one
C7_Witness ==
    /\ last.entry = "validate_path_buf" /\ V.is_safe
    /\ Len(V.warnings) = 3 /\ V.risk_level = "Medium"
    /\ prev.entry = "validate_path_safety" /\ prev.result.val.is_safe
    /\ Len(prev.result.val.warnings) = 1

\* C8: every call returns Ok, and a call in which a probe failed (the existence
\* probe or the directory-type probe) returns the verdict of a missing path.
C8_ProbeFailureIsMissing ==
    Called => (/\ last.result.tag = "Ok"
               /\ (statFails # {} => V = MissingVerdict))

UserSensitive ==
    /\ home.some
    /\ \/ path_eq(path, home.dir, os)
       \/ \E subdir \in sensitive_subdirs : path_eq(path, join(home.dir, subdir, os), os)

UserWarnings == {"User sensitive directory - review operations carefully",
                 "User home directory - review carefully before operations"}

\* C10: a verdict for an existing directory that is not blocked and is the home
\* directory or one of its well-known sub-directories is safe and carries a
\* user-sensitive warning.
C10_UserSensitiveWarned ==
    (Called /\ ExistingDir /\ V.blocked_reasons = <<>> /\ UserSensitive)
        => (V.is_safe /\ \E i \in 1..Len(V.warnings) : V.warnings[i] \in UserWarnings)

\* every order in which the five rules can be evaluated
RuleOrders ==
    {[i \in 1..5 |-> validator_rules[perm[i]]] : perm \in Permutations(1..5)}

\* the place of a rule in an order
RulePosition(ord, r) == CHOOSE i \in 1..5 : ord[i] = r

\* what the rules find for the path of the call; they are not consulted when
\* the existence or the type check returns
FoundHere ==
    IF exists(fs, statFails) /\ is_dir(fs, statFails)
    THEN rule_findings(path, os, home)
    ELSE [r \in {"system_directory", "user_sensitive", "path_traversal",
                 "unsafe_characters", "path_length"} |-> FALSE]

\* C11 (as claimed): the verdict of validate_path_buf has the risk level and
\* the is_safe flag that any other evaluation order of its rules produces.
C11_RiskOrderIndependent ==
    last.entry = "validate_path_buf" =>
        \A found \in {FoundHere} : \A ord \in RuleOrders :
            LET v == classify_in_order(ord, found, fs, statFails)
            IN  v.is_safe = V.is_safe /\ v.risk_level = V.risk_level

\* C11 (amended): is_safe is the same in every evaluation order, and so is the
\* risk level unless the path triggers both blocking rules; then the rule that
\* is evaluated first decides: High when the system-directory rule comes
\* first, as in the code, Critical when the traversal rule comes first.
C11_RiskOrderAmended ==
    last.entry = "validate_path_buf" =>
        \A found \in {FoundHere} :
            /\ classify_in_order(validator_rules, found, fs, statFails) = V
            /\ \A ord \in RuleOrders :
                  LET v == classify_in_order(ord, found, fs, statFails)
                      both == found.system_directory /\ found.path_traversal
                  IN  /\ v.is_safe = V.is_safe
                      /\ (~both => v.risk_level = V.risk_level)
                      /\ (both =>
                            /\ V.risk_level = "High"
                            /\ v.risk_level =
                                 IF RulePosition(ord, "system_directory") < RulePosition(ord, "path_traversal")
                                 THEN "High" ELSE "Critical")

\* the validator blocked an existing directory that triggers both blocking rules
C11_Witness ==
    /\ last.entry = "validate_path_buf" /\ ExistingDir
    /\ V.risk_level = "High"
    /\ HasTraversal
    /\ home.some /\ os = "linux"

\* the place of a warning in the order user-sensitive directory, application
\* directory, deep path, special characters, long path
WarningRank(w) ==
    CASE w = "User sensitive directory - review operations carefully" -> 1
      [] w = "User home directory - review carefully before operations" -> 1
      [] w = "Application directory - may affect installed programs" -> 2
      [] w = "Very deep directory path - may cause performance issues" -> 3
      [] w = "Path contains special characters that may cause issues" -> 4
      [] w = "Path contains special characters - some operations may be limited" -> 4
      [] w = "Very long path - may cause system limitations" -> 5
      [] OTHER -> 0

\* C12: the warnings of a verdict are warnings of the five kinds, listed in the
\* order user-sensitive directory, application directory, deep path, special
\* characters, long path, and no kind of warning appears twice.
C12_WarningsInRuleOrder ==
    Called =>
        /\ \A i \in 1..Len(V.warnings) : WarningRank(V.warnings[i]) > 0
        /\ \A i, j \in 1..Len(V.warnings) :
              i < j => WarningRank(V.warnings[i]) < WarningRank(V.warnings[j])

\* the command listed a deep-path and a special-characters warning for a path
\* for which the validator listed a warning too
C12_Witness ==
    /\ last.entry = "validate_path_safety"
    /\ Len(V.warnings) >= 2
    /\ WarningRank(V.warnings[Len(V.warnings) - 1]) = 3
    /\ WarningRank(V.warnings[Len(V.warnings)]) = 4
    /\ prev.entry = "validate_path_buf"
    /\ Len(prev.result.val.warnings) >= 1

\* C13: when the final risk aggregation runs (calculate_risk_level in the
\* validator, the closing if/else in the command) blocked_reasons is empty, so
\* its branch for a non-empty blocked_reasons is never taken: an unsafe verdict
\* never comes from the aggregation, it comes from the return inside a rule.
C13_AggregationNeverBlocked ==
    Called =>
        LET a == last.result.aggregation
        IN  /\ a.reached => (a.blocked_reasons = <<>> /\ V.is_safe)
            /\ ~V.is_safe => ~a.reached

\* the command reached its aggregation for a path on which the validator
\* returned from inside a blocking rule
C13_Witness ==
    /\ last.entry = "validate_path_safety"
    /\ last.result.aggregation.reached
    /\ V.warnings # <<>>
    /\ prev.entry = "validate_path_buf"
    /\ ~prev.result.aggregation.reached
    /\ prev.result.val.blocked_reasons # <<>>
    /\ ExistingDir

\* C14: for an existing directory that no rule blocks and whose path contains
\* node_modules, .git, target, build, dist, .vscode or .idea, the verdict of
\* either entry point is safe and lists the application-directory warning.
C14_ApplicationDirectoryWarned ==
    (Called /\ ExistingDir /\ V.blocked_reasons = <<>> /\ is_application_directory(path))
        => /\ V.is_safe
           /\ \E i \in 1..Len(V.warnings) : WarningRank(V.warnings[i]) = 2

\* C15: an unsafe verdict comes from exactly one rule that returns at once: it
\* has exactly one blocked reason and no warning, also for a user-sensitive
\* directory whose path contains a traversal pattern.
C15_UnsafeHasOneReasonNoWarnings ==
    (Called /\ ~V.is_safe) => (Len(V.blocked_reasons) = 1 /\ V.warnings = <<>>)

\* C16: the validator is at least as strict as the command: when the command
\* returned an unsafe verdict for a path, the validator called next on the same
\* path, filesystem state, home directory and platform returns an unsafe
\* verdict too.
C16_ValidatorAtLeastAsStrict ==
    (/\ prev.entry = "validate_path_safety"
     /\ last.entry = "validate_path_buf"
     /\ ~prev.result.val.is_safe)
        => ~V.is_safe

\* C17: validate_directory_access leaves the files of the inspected directory
\* and their contents as they were, whatever the directory holds (a file
\* named .write_test included) and whatever the outcome of the write probe.
C17_DirectoryUnchanged == [][entries' = entries]_vars

====
